---- MODULE Spec2Model ----
(***************************************************************************)
(* Directory of organizations, buildings, phones and a taxonomy of         *)
(* activities (src/app).  The relational store is modelled by one          *)
(* function per table (primary key -> row) and one bag per association     *)
(* table; every HTTP handler is one action, except where the code itself   *)
(* is split by an await on the storage engine that other requests can      *)
(* interleave with (Phone creation) or is a recursion whose termination    *)
(* is in question (_get_activities_from_parent).                           *)
(***************************************************************************)
EXTENDS Integers, Sequences, FiniteSets, TLC

VARIABLES
    activity,               \* table "activity": uuid -> [name, parent_uuid]
    organization,           \* table "organizations": uuid -> [name, building_uuid]
    building,               \* table "buildings": uuid -> [address, latitude, longitude]
    phone,                  \* table "phones": id -> [number]
    phone_seq,              \* last value handed out by the phones.id sequence
    organization_activity,  \* association rows <<organization_id, activity_id>> -> multiplicity
    organization_phone,     \* association rows <<organization_id, phone_id>> -> multiplicity
    resp,                   \* the last handler call: its arguments and what it returned or raised
    stack,                  \* call stack of the running _get_activities_from_parent
    exp,                    \* the last get_nested_activities call: [status, arg, result]
    req,                    \* per client: the Phone creation in flight
    pages                   \* the last two list_organizations pages of one query

vars == <<activity, organization, building, phone, phone_seq, organization_activity,
          organization_phone, resp, stack, exp, req, pages>>

(***************************************************************************)
(* Bounds of the model.                                                    *)
(***************************************************************************)
MaxActivities == 4
MaxStack == 5
MaxClients == 2
MaxPhones == 3
MaxOrgPhones == 1
MaxOrganizations == 2
MaxOrgActivities == 1
MaxBuildings == 1
MaxListLen == 1

(***************************************************************************)
(* Optional values (Python None / a value) and small helpers.              *)
(***************************************************************************)
None == <<>>
Some(x) == <<x>>
Put(f, k, v) == [x \in DOMAIN f \cup {k} |-> IF x = k THEN v ELSE f[x]]
ToSet(s) == {s[i] : i \in DOMAIN s}

ActivityUUIDs == 1..MaxActivities
ActivityNames == {<<"a">>}

Clients == 1..MaxClients
IdleReq == [pc |-> "idle"]

NoResp == [op |-> "none", status |-> 0]
IdleExp == [status |-> "idle", arg |-> 0, result |-> <<>>]
NoPages == [state |-> "none"]

(***************************************************************************)
(* Activity (models.py).                                                   *)
(***************************************************************************)
MAX_DEPTH == 3

\* Activity.depth: 1 + (parent.depth if parent else 0), over the rows of
\* table a.  The recursion of the property does not end on a cyclic chain;
\* here it is cut after fuel steps, so a cyclic chain evaluates to fuel.
RECURSIVE depth_upto(_, _, _)
depth_upto(a, u, fuel) ==
    IF fuel = 0 \/ u \notin DOMAIN a THEN 0
    ELSE 1 + (IF a[u].parent_uuid # None
              THEN depth_upto(a, a[u].parent_uuid[1], fuel - 1)
              ELSE 0)

depth(a, u) == depth_upto(a, u, MaxActivities + 1)

\* Activity._validate_parent: raises ValueError when parent.depth + 1 > MAX_DEPTH.
_validate_parent(a, parent) ==
    IF parent # None /\ depth(a, parent[1]) + 1 > MAX_DEPTH THEN "ValueError" ELSE "ok"

\* The attribute whose assignment runs _validate_parent (@validates("parent")).
ValidatedAttr == "parent"

\* ActivityCreate fields, and new.dict(exclude_none=True) of the create path.
ActivityCreate_fields == {"name", "parent_uuid"}
dict_exclude_none(data) ==
    {k \in ActivityCreate_fields : k = "name" \/ data.parent_uuid # None}

\* model(**kwargs): the declarative constructor sets each keyword as an
\* attribute; a validator runs only for the attribute it is registered on.
Activity_new(a, data) ==
    IF ValidatedAttr \in dict_exclude_none(data)
    THEN _validate_parent(a, data.parent_uuid)
    ELSE "ok"

\* Foreign key activity.parent_uuid -> activity.uuid.
parent_fk_ok(a, parent_uuid) == parent_uuid = None \/ parent_uuid[1] \in DOMAIN a

quiescent == stack = <<>>

\* ActivitiesViews.create_activity -> CRUD.create -> PostgresDatabase.create.
\* new is the value uuid.uuid4() gives the row (Column default).
create_activity(new, data) ==
    /\ quiescent
    /\ new \notin DOMAIN activity
    /\  LET built == Activity_new(activity, data)
            ok == built = "ok" /\ parent_fk_ok(activity, data.parent_uuid)
        IN  /\ activity' = IF ok
                           THEN Put(activity, new,
                                    [name |-> data.name, parent_uuid |-> data.parent_uuid])
                           ELSE activity
            /\ resp' = [op |-> "create_activity",
                        status |-> IF ok THEN 201 ELSE 400,
                        error |-> IF built # "ok" THEN built
                                  ELSE IF ok THEN "" ELSE "IntegrityError",
                        args |-> data,
                        uuid |-> IF ok THEN Some(new) ELSE None]
    /\ exp' = IdleExp
    /\ pages' = NoPages
    /\ UNCHANGED <<organization, building, phone, phone_seq, organization_activity,
                   organization_phone, stack, req>>

\* The fields of OrganisationCreateUpdate.
OrganisationCreateUpdate_fields == {"name", "phones", "building_uuid", "activities"}

\* obj_in.model_dump(): every field of the schema, sent or not.
model_dump_all(data) == OrganisationCreateUpdate_fields

\* obj_in.model_dump(exclude_unset=True): the fields the client sent.
model_dump_exclude_unset(data) == data.set

\* ActivitiesViews.update_activitiy -> CRUD.update -> PostgresDatabase.update:
\* UPDATE activity SET <sent fields> WHERE uuid = :id, then re-select.
update_activitiy(uuid, data) ==
    /\ quiescent
    /\ LET keys == model_dump_exclude_unset(data)
           hit == uuid \in DOMAIN activity
           fk == "parent_uuid" \in keys /\ hit => parent_fk_ok(activity, data.parent_uuid)
           row == [name |-> IF "name" \in keys THEN data.name ELSE activity[uuid].name,
                   parent_uuid |-> IF "parent_uuid" \in keys THEN data.parent_uuid
                                   ELSE activity[uuid].parent_uuid]
       IN  /\ activity' = IF hit /\ fk THEN [activity EXCEPT ![uuid] = row] ELSE activity
           /\ resp' = [op |-> "update_activitiy",
                       status |-> IF fk THEN 200 ELSE 400,
                       error |-> IF fk THEN "" ELSE "IntegrityError",
                       args |-> data,
                       uuid |-> IF hit /\ fk THEN Some(uuid) ELSE None]
    /\ exp' = IdleExp
    /\ pages' = NoPages
    /\ UNCHANGED <<organization, building, phone, phone_seq, organization_activity,
                   organization_phone, stack, req>>

ActivityCreateData ==
    [name : ActivityNames, parent_uuid : {None} \cup {Some(u) : u \in ActivityUUIDs}]
\* name is required by the schema; parent_uuid is sent or not (unsent reads None).
ActivityUpdateData ==
    [set : {{"name"}}, name : ActivityNames, parent_uuid : {None}]
    \cup [set : {{"name", "parent_uuid"}}, name : ActivityNames,
          parent_uuid : {None} \cup {Some(u) : u \in ActivityUUIDs}]

(***************************************************************************)
(* ActivitiesViews._get_activities_from_parent (views.py), one step per    *)
(* call, per recursive call and per return.                                *)
(***************************************************************************)
\* select(Activity).where(Activity.parent_uuid == activity_uuid)
children(a, u) == {c \in DOMAIN a : a[c].parent_uuid = Some(u)}

\* Entering _get_activities_from_parent(u) with the frames s below it.  Each
\* fetched row is a fresh ORM object, so the set of objects a frame holds is
\* kept as a sequence of the uuids of its members.
enter(s, u) ==
    IF Len(s) >= MaxStack
    THEN [stack |-> <<>>, exp |-> [status |-> "RecursionError", arg |-> exp.arg, result |-> <<>>]]
    ELSE [stack |-> Append(s, [uuid |-> u, todo |-> children(activity, u), activities |-> <<u>>]),
          exp |-> [status |-> "running", arg |-> exp.arg, result |-> <<>>]]

\* ActivitiesViews.get_nested_activities: the outermost call.
get_nested_activities(u) ==
    /\ quiescent
    /\ IF u \notin DOMAIN activity
       THEN /\ exp' = [status |-> "done", arg |-> u, result |-> <<>>]
            /\ stack' = <<>>
       ELSE /\ exp' = [status |-> "running", arg |-> u, result |-> <<>>]
            /\ stack' = <<[uuid |-> u, todo |-> children(activity, u), activities |-> <<u>>]>>
    /\ resp' = [op |-> "get_nested_activities", status |-> 0]
    /\ pages' = NoPages
    /\ UNCHANGED <<activity, organization, building, phone, phone_seq, organization_activity,
                   organization_phone, req>>

\* for child in children: await _get_activities_from_parent(child.uuid)
expand_recurse ==
    /\ stack # <<>>
    /\ LET top == stack[Len(stack)]
       IN  \E c \in top.todo :
             LET below == [stack EXCEPT ![Len(stack)].todo = top.todo \ {c}]
                 r == enter(below, c)
             IN  /\ stack' = r.stack
                 /\ exp' = r.exp
    /\ UNCHANGED <<activity, organization, building, phone, phone_seq, organization_activity,
                   organization_phone, resp, req, pages>>

\* activities.update(child_activities) lost: the child's result is dropped.
set_update_lost(mine, child_activities) == mine

\* activities.update(child_activities): the objects of both sets.
set_update(mine, child_activities) == mine \o child_activities

\* return activities, received by the caller's loop body.
expand_return ==
    /\ stack # <<>>
    /\ LET n == Len(stack)
           top == stack[n]
       IN  /\ top.todo = {}
           /\ IF n = 1
              THEN /\ stack' = <<>>
                   /\ exp' = [status |-> "done", arg |-> exp.arg, result |-> top.activities]
              ELSE /\ stack' = [SubSeq(stack, 1, n - 1) EXCEPT
                                   ![n - 1].activities =
                                       set_update(stack[n - 1].activities, top.activities)]
                   /\ exp' = exp
    /\ UNCHANGED <<activity, organization, building, phone, phone_seq, organization_activity,
                   organization_phone, resp, req, pages>>

(***************************************************************************)
(* The activity endpoints.                                                 *)
(***************************************************************************)
EmptyTable == <<>>

Init ==
    /\ activity = EmptyTable
    /\ organization = EmptyTable
    /\ building = EmptyTable
    /\ phone = EmptyTable
    /\ phone_seq = 0
    /\ organization_activity = EmptyTable
    /\ organization_phone = EmptyTable
    /\ resp = NoResp
    /\ stack = <<>>
    /\ exp = IdleExp
    /\ req = [c \in Clients |-> IdleReq]
    /\ pages = NoPages

Next ==
    \/ \E new \in ActivityUUIDs, data \in ActivityCreateData : create_activity(new, data)
    \/ \E u \in ActivityUUIDs, data \in ActivityUpdateData : update_activitiy(u, data)
    \/ \E u \in ActivityUUIDs : get_nested_activities(u)
    \/ expand_recurse
    \/ expand_return

Spec == Init /\ [][Next]_vars

(***************************************************************************)
(* The activity endpoints on forests: only creation changes the table, so  *)
(* every reachable table is acyclic, and every forest over the identifiers *)
(* is reachable.                                                           *)
(***************************************************************************)
NextForest ==
    \/ \E new \in ActivityUUIDs, data \in ActivityCreateData : create_activity(new, data)
    \/ \E u \in ActivityUUIDs : get_nested_activities(u)
    \/ expand_recurse
    \/ expand_return

SpecForest == Init /\ [][NextForest]_vars

(***************************************************************************)
(* Phone (models.py) and PhonesViews.create_activity (views.py).  The      *)
(* handler awaits the storage engine at commit, so two requests overlap:   *)
(* one step builds the object and adds it to the session, one commits.     *)
(***************************************************************************)
PhoneIds == 1..MaxPhones
PhoneNumbers == {"100", "200"}

\* The unique constraint is not declared: nothing is ever a duplicate.
unique_violation_off(p, number) == FALSE

\* Column("number", unique=True): the INSERT violates the constraint.
unique_violation(p, number) == \E i \in DOMAIN p : p[i].number = number

in_flight(c) == req[c].pc = "added"

\* new_object = model(**new.dict(exclude_none=True)); session.add(new_object)
create_phone_begin(c, number) ==
    /\ ~in_flight(c)
    /\ phone_seq + Cardinality({d \in Clients : in_flight(d)}) < MaxPhones
    /\ LET same == {d \in Clients \ {c} : in_flight(d) /\ req[d].number = number}
       IN  req' = [d \in Clients |->
                    IF d = c THEN [pc |-> "added", number |-> number, overlap |-> same # {}]
                    ELSE IF d \in same THEN [req[d] EXCEPT !.overlap = TRUE]
                    ELSE req[d]]
    /\ UNCHANGED <<activity, organization, building, phone, phone_seq, organization_activity,
                   organization_phone, resp, stack, exp, pages>>

\* await session.commit(): INSERT INTO phones (the id comes from the
\* sequence, which keeps the value also when the INSERT fails), then
\* refresh, or IntegrityError -> rollback -> HTTPException(400).
create_phone_commit(c) ==
    /\ in_flight(c)
    /\ LET id == phone_seq + 1
           dup == unique_violation(phone, req[c].number)
       IN  /\ phone_seq' = id
           /\ phone' = IF dup THEN phone ELSE Put(phone, id, [number |-> req[c].number])
           /\ req' = [req EXCEPT ![c] =
                        [pc |-> "done", number |-> req[c].number, overlap |-> req[c].overlap,
                         status |-> IF dup THEN 400 ELSE 201,
                         error |-> IF dup THEN "IntegrityError" ELSE "",
                         id |-> IF dup THEN None ELSE Some(id)]]
    /\ pages' = NoPages
    /\ UNCHANGED <<activity, organization, building, organization_activity,
                   organization_phone, resp, stack, exp>>

NextPhone ==
    \/ \E c \in Clients, number \in PhoneNumbers : create_phone_begin(c, number)
    \/ \E c \in Clients : create_phone_commit(c)

SpecPhone == Init /\ [][NextPhone]_vars

(***************************************************************************)
(* Building (models.py) and BuildingViews.create_building (views.py).      *)
(***************************************************************************)
BuildingUUIDs == 1..MaxBuildings
GeoValues == {0, 1}
BuildingCreateData == [address : {"x"}, latitude : GeoValues, longitude : GeoValues]

\* The attributes of the mapped class Building.
Building_attrs == {"uuid", "address", "latitude", "longitude", "organizations"}

\* new = {"address": data.address, "location": location}: a plain dict.
create_building_payload(data) == [kind |-> "dict", keys |-> {"address", "location"}]

\* new.dict(exclude_none=True) exists on a schema object, not on a dict.
has_dict_method(payload) == payload.kind = "schema"

\* model(**kwargs): the declarative constructor takes mapped attributes only.
constructor_accepts(attrs, payload) == payload.keys \subseteq attrs

\* BuildingViews.create_building -> CRUD.create -> PostgresDatabase.create.
create_building(new, data) ==
    /\ new \notin DOMAIN building
    /\ LET payload == create_building_payload(data)
           ok == has_dict_method(payload) /\ constructor_accepts(Building_attrs, payload)
       IN  /\ building' = IF ok
                           THEN Put(building, new,
                                    [address |-> data.address, latitude |-> data.latitude,
                                     longitude |-> data.longitude])
                           ELSE building
           /\ resp' = [op |-> "create_building",
                       status |-> IF ok THEN 201 ELSE 400,
                       error |-> IF ~has_dict_method(payload) THEN "AttributeError"
                                 ELSE IF ok THEN "" ELSE "TypeError",
                       args |-> data,
                       uuid |-> IF ok THEN Some(new) ELSE None]
    /\ pages' = NoPages
    /\ UNCHANGED <<activity, organization, phone, phone_seq, organization_activity,
                   organization_phone, stack, exp, req>>

(***************************************************************************)
(* Organization (models.py), OrganizationViews.create_organisation and     *)
(* update_organization (views.py).                                         *)
(***************************************************************************)
OrganizationUUIDs == 1..MaxOrganizations
OrgActivityUUIDs == 1..MaxOrgActivities
OrgPhoneIds == 1..MaxOrgPhones
OrganizationNames == {<<"a">>, <<"b", "a">>}

\* The columns of table organizations.
Organization_columns == {"uuid", "name", "building_uuid"}

Lists(S) == {<<>>} \cup UNION {[1..n -> S] : n \in 1..MaxListLen}

\* A request body: set holds the fields the client sent, the others read
\* their defaults (None, []).
OrganisationData(sets) ==
    {d \in [set : sets,
            name : {None} \cup {Some(n) : n \in OrganizationNames},
            phones : Lists(OrgPhoneIds),
            building_uuid : {None} \cup {Some(b) : b \in BuildingUUIDs},
            activities : Lists(OrgActivityUUIDs)] :
        /\ "name" \notin d.set => d.name = None
        /\ "phones" \notin d.set => d.phones = <<>>
        /\ "building_uuid" \notin d.set => d.building_uuid = None
        /\ "activities" \notin d.set => d.activities = <<>>}

count(seq, e) == Cardinality({i \in DOMAIN seq : seq[i] = e})

\* session.execute(insert(table), rows): one row per element of ids.
insert_rows(t, o, ids) ==
    [p \in DOMAIN t \cup {<<o, ids[i]>> : i \in DOMAIN ids} |->
        (IF p \in DOMAIN t THEN t[p] ELSE 0) + (IF p[1] = o THEN count(ids, p[2]) ELSE 0)]

\* NOT NULL on organizations.name and the foreign key to buildings.uuid.
organization_row_ok(name, building_uuid) ==
    /\ name # None
    /\ building_uuid = None \/ building_uuid[1] \in DOMAIN building

\* async with PostgresDatabase.get_session() as session: the rows the
\* session sees, which are the committed rows until it writes, and the
\* exception that ended it.
session_begin ==
    [organization |-> organization, organization_activity |-> organization_activity,
     organization_phone |-> organization_phone, error |-> ""]

\* session.add(organisation); await session.flush(): the INSERT is sent,
\* inside the session's transaction.
session_flush(s, new, data) ==
    IF organization_row_ok(data.name, data.building_uuid)
    THEN [s EXCEPT !.organization =
                      Put(@, new, [name |-> data.name[1],
                                   building_uuid |-> data.building_uuid])]
    ELSE [s EXCEPT !.error = "IntegrityError"]

\* if data.activities: insert(organization_activity); except Exception:
\* raise HTTPException(400).
insert_activities(s, new, data) ==
    IF s.error # "" \/ data.activities = <<>> THEN s
    ELSE IF ToSet(data.activities) \subseteq DOMAIN activity
         THEN [s EXCEPT !.organization_activity = insert_rows(@, new, data.activities)]
         ELSE [s EXCEPT !.error = "Exception"]

\* if data.phones: insert(organization_phone); except Exception: raise
\* HTTPException(400).
insert_phones(s, new, data) ==
    IF s.error # "" \/ data.phones = <<>> THEN s
    ELSE IF ToSet(data.phones) \subseteq DOMAIN phone
         THEN [s EXCEPT !.organization_phone = insert_rows(@, new, data.phones)]
         ELSE [s EXCEPT !.error = "Exception"]

\* The session commits what it wrote also when an exception ends it.
session_exit_autocommit(s) == s

\* Leaving the session block: after await session.commit() the session's
\* rows are the store; an exception leaves the block before the commit and
\* closing the session rolls its transaction back.
session_exit(s) ==
    IF s.error = "" THEN s ELSE [session_begin EXCEPT !.error = s.error]

\* OrganizationViews.create_organisation: flush, the two association
\* inserts, commit, in one session.
create_organisation(new, data) ==
    /\ new \notin DOMAIN organization
    /\ LET flushed == session_flush(session_begin, new, data)
           s == session_exit(insert_phones(insert_activities(flushed, new, data), new, data))
           ok == s.error = ""
       IN  /\ organization' = s.organization
           /\ organization_activity' = s.organization_activity
           /\ organization_phone' = s.organization_phone
           /\ resp' = [op |-> "create_organisation",
                       status |-> IF ok THEN 201
                                  ELSE IF flushed.error = "" THEN 400 ELSE 500,
                       error |-> s.error,
                       args |-> data,
                       uuid |-> IF ok THEN Some(new) ELSE None]
    /\ pages' = NoPages
    /\ UNCHANGED <<activity, building, phone, phone_seq, stack, exp, req>>

\* OrganizationViews.update_organization -> CRUD.update -> PostgresDatabase.update:
\* UPDATE organizations SET <sent fields> WHERE uuid = :id.  A key that is
\* not a column (phones, activities) fails the statement.
update_organization(uuid, data) ==
    /\ LET keys == model_dump_exclude_unset(data)
           hit == uuid \in DOMAIN organization
           compiles == keys \subseteq Organization_columns
           name == IF "name" \in keys THEN data.name ELSE Some(organization[uuid].name)
           building_uuid == IF "building_uuid" \in keys THEN data.building_uuid
                            ELSE organization[uuid].building_uuid
           ok == compiles /\ (hit => organization_row_ok(name, building_uuid))
       IN  /\ organization' = IF ok /\ hit
                               THEN [organization EXCEPT ![uuid] =
                                        [name |-> name[1], building_uuid |-> building_uuid]]
                               ELSE organization
           /\ resp' = [op |-> "update_organization",
                       status |-> IF ok THEN 200 ELSE 400,
                       error |-> IF ok THEN "" ELSE IF compiles THEN "IntegrityError"
                                 ELSE "CompileError",
                       args |-> data,
                       uuid |-> IF ok /\ hit THEN Some(uuid) ELSE None]
    /\ pages' = NoPages
    /\ UNCHANGED <<activity, building, phone, phone_seq, organization_activity,
                   organization_phone, stack, exp, req>>

(***************************************************************************)
(* PostgresDatabase.fetch_many (db.py) on Organization, and                *)
(* OrganizationViews.list_organizations (views.py).                        *)
(***************************************************************************)
\* The result of _get_activities_from_parent(u) as list_organizations uses
\* it: the uuids of the returned objects, or no result when the recursion
\* exceeds the stack (fuel frames).
RECURSIVE nested_activities(_, _, _)
nested_activities(a, u, fuel) ==
    IF fuel = 0 THEN [ok |-> FALSE, uuids |-> {}]
    ELSE IF u \notin DOMAIN a THEN [ok |-> TRUE, uuids |-> {}]
    ELSE LET sub == [c \in children(a, u) |-> nested_activities(a, c, fuel - 1)]
         IN  IF \E c \in DOMAIN sub : ~sub[c].ok
             THEN [ok |-> FALSE, uuids |-> {}]
             ELSE [ok |-> TRUE, uuids |-> {u} \cup UNION {sub[c].uuids : c \in DOMAIN sub}]

\* Case folding of ILIKE and the order of the characters of a name.
lower(c) == CASE c = "A" -> "a" [] c = "B" -> "b" [] OTHER -> c
ord(c) == CASE c = "a" -> 1 [] c = "b" -> 2 [] OTHER -> 3

\* model.name.ilike(f"%{name}%")
ilike(value, pattern) ==
    \E i \in 0..(Len(value) - Len(pattern)) :
        \A j \in 1..Len(pattern) : lower(value[i + j]) = lower(pattern[j])

\* s <= t in the order of a text column.
RECURSIVE text_le(_, _)
text_le(s, t) ==
    IF s = <<>> THEN TRUE
    ELSE IF t = <<>> THEN FALSE
    ELSE IF ord(s[1]) # ord(t[1]) THEN ord(s[1]) < ord(t[1])
    ELSE text_le(Tail(s), Tail(t))

RECURSIVE sum_over(_, _)
sum_over(S, f) ==
    IF S = {} THEN 0
    ELSE LET x == CHOOSE y \in S : TRUE IN f[x] + sum_over(S \ {x}, f)

\* Rows of the join of organization o with association table t whose other
\* side satisfies the condition "identifier in allowed".
joined(t, o, allowed) ==
    LET hits == {p \in DOMAIN t : p[1] = o /\ p[2] \in allowed}
    IN  sum_over(hits, t)

\* The rows the statement selects, before ORDER BY / OFFSET / LIMIT: one
\* <<uuid, k>> per joined row of an organization that passes the filters.
selected(name, filters, m2m_filters) ==
    LET passes(o) ==
            /\ name # None => ilike(organization[o].name, name[1])
            /\ filters.building_uuid # None
                   => organization[o].building_uuid = filters.building_uuid
        rows(o) ==
            (IF m2m_filters.activities = None THEN 1
             ELSE joined(organization_activity, o, m2m_filters.activities[1]))
            * (IF m2m_filters.phones = None THEN 1
               ELSE joined(organization_phone, o, m2m_filters.phones[1]))
    IN  UNION {{<<o, k>> : k \in 1..rows(o)} : o \in {x \in DOMAIN organization : passes(x)}}

RECURSIVE permutations(_)
permutations(S) ==
    IF S = {} THEN {<<>>}
    ELSE UNION {{<<x>> \o p : p \in permutations(S \ {x})} : x \in S}

Organization_attrs == {"uuid", "name", "building_uuid", "building", "phones", "activities"}

\* order_by(asc(column)) / order_by(desc(column)): rows with equal keys
\* come in any order; without ORDER BY every order is possible.
in_order(s, order_by, sort_order) ==
    order_by # None /\ order_by[1] \in Organization_attrs
    => \A i \in 1..(Len(s) - 1) :
         LET x == organization[s[i][1]]
             y == organization[s[i + 1][1]]
         IN  IF order_by[1] = "name"
             THEN IF sort_order = "DESC" THEN text_le(y.name, x.name)
                  ELSE text_le(x.name, y.name)
             ELSE IF sort_order = "DESC" THEN s[i + 1][1] <= s[i][1]
                  ELSE s[i][1] <= s[i + 1][1]

\* .offset(skip).limit(limit) and result.scalars().all()
window(s, skip, limit) ==
    [i \in 1..(IF Len(s) - skip < limit
               THEN (IF Len(s) > skip THEN Len(s) - skip ELSE 0)
               ELSE limit) |-> s[skip + i][1]]

\* PostgresDatabase.fetch_many(Organization, ...): the lists it can return.
fetch_many(filters, m2m_filters, name, skip, limit, order_by, sort_order) ==
    {window(s, skip, limit) :
        s \in {t \in permutations(selected(name, filters, m2m_filters)) :
                  in_order(t, order_by, sort_order)}}

\* The query list_organizations builds from its parameters.
list_filters(q) == [building_uuid |-> q.building_uuid]
list_m2m_filters(q, nested) ==
    [activities |-> IF q.activity_uuid = None THEN None
                    ELSE IF q.only_parent_activity THEN Some({q.activity_uuid[1]})
                    ELSE Some(nested.uuids),
     phones |-> IF q.phone_id = None THEN None ELSE Some({q.phone_id[1]})]

\* OrganizationViews.list_organizations -> CRUD.get_list -> fetch_many.
\* pages remembers a first page (skip = 0) and the page that follows it.
list_organizations(q) ==
    /\ quiescent
    /\ LET nested == IF q.activity_uuid # None /\ ~q.only_parent_activity
                     THEN nested_activities(activity, q.activity_uuid[1], MaxStack)
                     ELSE [ok |-> TRUE, uuids |-> {}]
       IN  IF ~nested.ok
           THEN /\ resp' = [op |-> "list_organizations", status |-> 500,
                            error |-> "RecursionError", args |-> q, rows |-> <<>>]
                /\ pages' = NoPages
           ELSE \E rows \in fetch_many(list_filters(q), list_m2m_filters(q, nested), q.name,
                                       q.skip, q.limit, q.order_by, q.sort_order) :
                  /\ resp' = [op |-> "list_organizations", status |-> 200,
                              error |-> "", args |-> q, rows |-> rows]
                  /\ pages' = IF q.skip = 0
                              THEN [state |-> "one", q |-> q, first |-> rows]
                              ELSE IF pages.state = "one"
                                      /\ q = [pages.q EXCEPT !.skip = pages.q.limit]
                                   THEN [state |-> "two", q |-> pages.q,
                                         first |-> pages.first, second |-> rows]
                                   ELSE NoPages
    /\ UNCHANGED <<activity, organization, building, phone, phone_seq, organization_activity,
                   organization_phone, stack, exp, req>>

(***************************************************************************)
(* BuildingViews.get_buildings_in_area (views.py).                         *)
(***************************************************************************)
Optional(S) == {None} \cup {Some(x) : x \in S}

AreaQueries ==
    [lat : Optional(GeoValues), lng : Optional(GeoValues), radius : Optional(GeoValues),
     min_lat : Optional(GeoValues), max_lat : Optional(GeoValues),
     min_lng : Optional(GeoValues), max_lng : Optional(GeoValues)]

\* A bound counts as given whenever it is not None.
given(x) == x # None

\* Python truth of an Optional[float]: None and 0.0 are false.
truthy(x) == x # None /\ x[1] # 0

\* all([min_lat, max_lat, min_lng, max_lng])
all_bounds(q) == truthy(q.min_lat) /\ truthy(q.max_lat) /\ truthy(q.min_lng) /\ truthy(q.max_lng)

\* ST_Y(location).between(min_lat, max_lat), ST_X(location).between(min_lng, max_lng)
in_box(b, q) ==
    /\ q.min_lat[1] <= b.latitude /\ b.latitude <= q.max_lat[1]
    /\ q.min_lng[1] <= b.longitude /\ b.longitude <= q.max_lng[1]

\* ST_DWithin(location, point, radius), with the distance taken on the grid
\* of the model's coordinates.
in_radius(b, q) ==
    LET dlat == IF b.latitude < q.lat[1] THEN q.lat[1] - b.latitude ELSE b.latitude - q.lat[1]
        dlng == IF b.longitude < q.lng[1] THEN q.lng[1] - b.longitude ELSE b.longitude - q.lng[1]
    IN  dlat + dlng <= q.radius[1]

\* The handler reads Building.location, which the mapped class does not have.
get_buildings_in_area(q) ==
    /\ LET no_box == q.radius = None /\ ~all_bounds(q)
           no_center == q.radius # None /\ (q.lat = None \/ q.lng = None)
           located == "location" \in Building_attrs
           found == IF q.radius # None
                    THEN {b \in DOMAIN building : in_radius(building[b], q)}
                    ELSE {b \in DOMAIN building : in_box(building[b], q)}
       IN  resp' = [op |-> "get_buildings_in_area",
                    status |-> IF no_box \/ no_center THEN 400
                               ELSE IF located THEN 200 ELSE 500,
                    error |-> IF no_box \/ no_center THEN "HTTPException"
                              ELSE IF located THEN "" ELSE "AttributeError",
                    args |-> q,
                    rows |-> IF ~(no_box \/ no_center) /\ located THEN found ELSE {}]
    /\ UNCHANGED <<activity, organization, building, phone, phone_seq, organization_activity,
                   organization_phone, stack, exp, req, pages>>

NextGeo ==
    \/ \E q \in AreaQueries : get_buildings_in_area(q)
    \/ \E new \in BuildingUUIDs, data \in BuildingCreateData : create_building(new, data)

SpecGeo == Init /\ [][NextGeo]_vars

(***************************************************************************)
(* PostgresDatabase.fetch_one (db.py), as CRUD.get calls it.               *)
(***************************************************************************)
fetch_one(t, id) ==
    LET hits == {k \in DOMAIN t : k = id}
    IN  IF hits = {} THEN None ELSE Some(t[CHOOSE k \in hits : TRUE])

(***************************************************************************)
(* The organization endpoints with the entities they refer to.             *)
(***************************************************************************)
OrgActivityCreateData == [name : ActivityNames, parent_uuid : Optional(OrgActivityUUIDs)]
AllFields == {OrganisationCreateUpdate_fields}

\* Every kind of entity is created, starting from the empty store.
NextCreate ==
    \/ \E new \in OrgActivityUUIDs, data \in OrgActivityCreateData : create_activity(new, data)
    \/ \E c \in Clients, number \in PhoneNumbers :
          phone_seq < MaxOrgPhones /\ create_phone_begin(c, number)
    \/ \E c \in Clients : create_phone_commit(c)
    \/ \E new \in BuildingUUIDs, data \in BuildingCreateData : create_building(new, data)
    \/ \E new \in OrganizationUUIDs, data \in OrganisationData(AllFields) :
          create_organisation(new, data)

SpecCreate == Init /\ [][NextCreate]_vars

\* Organizations are created and updated in a store that already holds one
\* Activity and one Phone (the state after POST /activities/ {name: a} and
\* POST /phones/ {number: 100}).
InitOrg ==
    /\ activity = Put(EmptyTable, 1, [name |-> <<"a">>, parent_uuid |-> None])
    /\ organization = EmptyTable
    /\ building = EmptyTable
    /\ phone = Put(EmptyTable, 1, [number |-> "100"])
    /\ phone_seq = 1
    /\ organization_activity = EmptyTable
    /\ organization_phone = EmptyTable
    /\ resp = NoResp
    /\ stack = <<>>
    /\ exp = IdleExp
    /\ req = [c \in Clients |-> IdleReq]
    /\ pages = NoPages

\* Request bodies that name the stored Activity and Phone: a create with or
\* without them, an update of columns, and an update that sends a relation.
SeededLists == {<<>>, <<1>>}
ColumnFields == SUBSET {"name", "building_uuid"} \ {{}}
RelationFields == {{"phones"}, {"activities"}, {"name", "phones"}}
OrgCreateData ==
    {d \in OrganisationData(AllFields) :
        d.building_uuid = None /\ d.phones \in SeededLists /\ d.activities \in SeededLists}
OrgUpdateData ==
    {d \in OrganisationData(ColumnFields \cup RelationFields) :
        d.phones \in SeededLists /\ d.activities \in SeededLists}

NextOrg ==
    \/ \E new \in OrganizationUUIDs, data \in OrgCreateData : create_organisation(new, data)
    \/ \E u \in OrganizationUUIDs, data \in OrgUpdateData : update_organization(u, data)

SpecOrg == InitOrg /\ [][NextOrg]_vars

(***************************************************************************)
(* Listing organizations page by page.                                     *)
(***************************************************************************)
MaxLimit == 1
NamePatterns == {<<"A">>}
ListQueries ==
    [skip : 0..MaxLimit, limit : 1..MaxLimit,
     building_uuid : {None}, activity_uuid : Optional(OrgActivityUUIDs),
     only_parent_activity : BOOLEAN, name : Optional(NamePatterns),
     phone_id : Optional({1}), order_by : Optional({"name"}),
     sort_order : {"ASC", "DESC"}]
ListOrganisationData ==
    {d \in OrganisationData(AllFields) : d.phones = <<>> /\ d.building_uuid = None}

NextList ==
    \/ \E new \in OrgActivityUUIDs, data \in OrgActivityCreateData : create_activity(new, data)
    \/ \E new \in OrganizationUUIDs, data \in ListOrganisationData :
          create_organisation(new, data)
    \/ \E q \in ListQueries : list_organizations(q)

SpecList == Init /\ [][NextList]_vars

(***************************************************************************)
(* CRUD.create with a BuildingCreate object (common.py), and               *)
(* PostgresDatabase.delete / CRUD.delete (db.py, common.py).  No route     *)
(* calls delete; it is the repository operation itself that is modelled.   *)
(***************************************************************************)
Models == {"Building", "Organization", "Activity", "Phone"}

\* The columns of each mapped class.
columns(model) ==
    CASE model = "Building" -> {"uuid", "address", "latitude", "longitude"}
      [] model = "Organization" -> Organization_columns
      [] model = "Activity" -> {"uuid", "name", "parent_uuid"}
      [] model = "Phone" -> {"id", "number"}

\* The primary key column of each mapped class.
primary_key(model) == IF model = "Phone" THEN "id" ELSE "uuid"

\* CRUD.lookup_field
lookup_field == "uuid"

table(model) ==
    CASE model = "Building" -> building
      [] model = "Organization" -> organization
      [] model = "Activity" -> activity
      [] model = "Phone" -> phone

\* obj_in of CRUD.create for Building: a BuildingCreate object, whose
\* dict(exclude_none=True) has the three required fields.
BuildingCreate_payload(data) ==
    [kind |-> "schema", keys |-> {"address", "latitude", "longitude"}]

\* CRUD.create(obj_in) -> PostgresDatabase.create(obj_in, Building).
CRUD_create_building(new, data) ==
    /\ new \notin DOMAIN building
    /\ LET payload == BuildingCreate_payload(data)
           ok == has_dict_method(payload) /\ constructor_accepts(Building_attrs, payload)
       IN  /\ building' = IF ok
                           THEN Put(building, new,
                                    [address |-> data.address, latitude |-> data.latitude,
                                     longitude |-> data.longitude])
                           ELSE building
           /\ resp' = [op |-> "CRUD_create_building",
                       status |-> IF ok THEN 201 ELSE 400,
                       error |-> IF ok THEN "" ELSE "Exception",
                       args |-> data,
                       uuid |-> IF ok THEN Some(new) ELSE None]
    /\ pages' = NoPages
    /\ UNCHANGED <<activity, organization, phone, phone_seq, organization_activity,
                   organization_phone, stack, exp, req>>

\* delete(model).filter_by(**filters): the keys of the rows the WHERE
\* clause selects.  filters is one column and the value it must equal: id
\* for an identifier column, name for a text column.
matches(model, filters) ==
    LET t == table(model)
    IN  IF filters.field = primary_key(model)
        THEN {k \in DOMAIN t : k = filters.id}
        ELSE {k \in DOMAIN t : t[k][filters.field] = filters.name}

\* No foreign key is declared: nothing ever refers to a row.
referenced_off(model, gone) == FALSE

\* The foreign keys of models.py (none has ON DELETE, so a DELETE that
\* leaves a referring row behind fails): does a row that stays refer to
\* one of the rows in gone?
referenced(model, gone) ==
    CASE model = "Building" ->
            \E o \in DOMAIN organization :
                organization[o].building_uuid # None
                /\ organization[o].building_uuid[1] \in gone
      [] model = "Organization" ->
            \E p \in DOMAIN organization_activity \cup DOMAIN organization_phone :
                p[1] \in gone
      [] model = "Activity" ->
            \/ \E c \in DOMAIN activity \ gone :
                  activity[c].parent_uuid # None /\ activity[c].parent_uuid[1] \in gone
            \/ \E p \in DOMAIN organization_activity : p[2] \in gone
      [] model = "Phone" ->
            \E p \in DOMAIN organization_phone : p[2] \in gone

\* The DELETE has lost its WHERE clause: every row goes.
without_all(t, gone) == [k \in {} |-> t[k]]

\* The table after DELETE removed the rows in gone.
without(t, gone) == [k \in DOMAIN t \ gone |-> t[k]]

\* PostgresDatabase.delete(model, filters): DELETE ... WHERE, commit,
\* rowcount > 0; an SQLAlchemyError (a filter that names no column of the
\* model, a foreign key violation) is rolled back and raised as 400.
delete(model, filters) ==
    /\ quiescent
    /\ LET valid == filters.field \in columns(model)
           gone == IF valid THEN matches(model, filters) ELSE {}
           ok == valid /\ ~referenced(model, gone)
           after(m, t) == IF ok /\ model = m THEN without(t, gone) ELSE t
       IN  /\ building' = after("Building", building)
           /\ organization' = after("Organization", organization)
           /\ activity' = after("Activity", activity)
           /\ phone' = after("Phone", phone)
           /\ resp' = [op |-> "delete",
                       status |-> IF ok THEN 200 ELSE 400,
                       error |-> IF ok THEN ""
                                 ELSE IF valid THEN "IntegrityError"
                                 ELSE "InvalidRequestError",
                       args |-> [model |-> model, filters |-> filters],
                       result |-> ok /\ gone # {}]
    /\ exp' = IdleExp
    /\ pages' = NoPages
    /\ UNCHANGED <<phone_seq, organization_activity, organization_phone, stack, req>>

\* CRUD.delete(id): delete(self.model, {self.lookup_field: id}).
CRUD_delete(model, id) == delete(model, [field |-> lookup_field, id |-> id, name |-> <<>>])

\* The calls of the delete specification: two Organizations, two
\* Activities (the second may be a child of the first), one Phone, and the
\* Buildings; Organizations refer to Activity 1 and Phone 1 or to nothing.
DeleteOrganizationUUIDs == {1, 2}
DeleteActivityUUIDs == {1, 2}
DeleteActivityData == [name : ActivityNames, parent_uuid : Optional({1})]

\* The filters of the delete calls: by identifier, as CRUD.delete builds
\* them, by Phone.id, and by name.
DeleteFilters ==
    [field : {"uuid", "id"}, id : DeleteOrganizationUUIDs, name : {<<>>}]
    \cup [field : {"name"}, id : {0}, name : OrganizationNames]

DeleteOrganisationData ==
    [set : AllFields, name : {Some(n) : n \in OrganizationNames}, phones : SeededLists,
     building_uuid : Optional(BuildingUUIDs), activities : SeededLists]
BuildingUpdateData == OrganisationData({{"building_uuid"}})
DeleteBuildingData == {d \in BuildingCreateData : d.latitude = 0 /\ d.longitude = 0}

NextDelete ==
    \/ \E new \in BuildingUUIDs, data \in DeleteBuildingData : CRUD_create_building(new, data)
    \/ phone_seq = 0 /\ create_phone_begin(1, "100")
    \/ create_phone_commit(1)
    \/ \E new \in DeleteActivityUUIDs, data \in DeleteActivityData : create_activity(new, data)
    \/ \E new \in DeleteOrganizationUUIDs, data \in DeleteOrganisationData :
          create_organisation(new, data)
    \/ \E u \in DeleteOrganizationUUIDs, data \in BuildingUpdateData :
          update_organization(u, data)
    \/ \E model \in Models, filters \in DeleteFilters : delete(model, filters)

SpecDelete == Init /\ [][NextDelete]_vars

(***************************************************************************)
(* Creating organizations whose activities and phones are stored (1) or    *)
(* not (2), in the store that holds Activity 1 and Phone 1.                *)
(***************************************************************************)
StoredOrMissing == {1, 2}
AtomicOrganizationUUIDs == {1, 2}
AtomicNames == {<<"a">>}
AtomicCreateData ==
    [set : AllFields, name : Optional(AtomicNames), phones : Lists(StoredOrMissing),
     building_uuid : {None}, activities : Lists(StoredOrMissing)]
AtomicActivityData == [name : ActivityNames, parent_uuid : Optional(StoredOrMissing)]

NextAtomic ==
    \/ \E new \in AtomicOrganizationUUIDs, data \in AtomicCreateData :
          create_organisation(new, data)
    \/ \E new \in StoredOrMissing, data \in AtomicActivityData : create_activity(new, data)

SpecAtomic == InitOrg /\ [][NextAtomic]_vars

(***************************************************************************)
(* Listing the organizations of an activity, with or without the           *)
(* activities below it: two activities, organizations with none, one or    *)
(* both of them.                                                           *)
(***************************************************************************)
NestedActivityUUIDs == {1, 2}
NestedLists == {<<>>, <<1>>, <<2>>, <<1, 2>>}
NestedActivityData == [name : ActivityNames, parent_uuid : Optional(NestedActivityUUIDs)]
NestedOrganisationData ==
    [set : AllFields, name : {Some(<<"a">>)}, phones : {<<>>}, building_uuid : {None},
     activities : NestedLists]
NestedQueries ==
    [skip : {0, 1}, limit : {1, 2},
     building_uuid : {None}, activity_uuid : Optional(NestedActivityUUIDs),
     only_parent_activity : BOOLEAN, name : {None},
     phone_id : {None}, order_by : {None}, sort_order : {"DESC"}]

NextNested ==
    \/ \E new \in NestedActivityUUIDs, data \in NestedActivityData : create_activity(new, data)
    \/ \E new \in OrganizationUUIDs, data \in NestedOrganisationData :
          create_organisation(new, data)
    \/ \E q \in NestedQueries : list_organizations(q)

SpecNested == Init /\ [][NextNested]_vars

(***************************************************************************)
(* ActivitiesViews.list_activities -> CRUD.get_list -> fetch_many on       *)
(* Activity (views.py, common.py, db.py).                                  *)
(***************************************************************************)
\* The attributes of the mapped class Activity.
Activity_attrs ==
    {"uuid", "name", "parent_uuid", "parent", "children", "organizations", "depth",
     "MAX_DEPTH"}

\* The characters of a query-string value.
chars(str) ==
    CASE str = "name" -> <<"n", "a", "m", "e">>
      [] str = "uuid" -> <<"u", "u", "i", "d">>
      [] str = "ASC" -> <<"A", "S", "C">>
      [] str = "DESC" -> <<"D", "E", "S", "C">>

\* getattr(model, order_by, None), then order_by(desc(column)) or
\* order_by(asc(column)) on Activity; no ORDER BY when there is no such
\* attribute.
in_order_activity(s, order_by, sort_order) ==
    order_by # None /\ order_by[1] \in Activity_attrs
    => \A i \in 1..(Len(s) - 1) :
         LET x == s[i][1]
             y == s[i + 1][1]
         IN  IF order_by[1] = "name"
             THEN IF sort_order = "DESC" THEN text_le(activity[y].name, activity[x].name)
                  ELSE text_le(activity[x].name, activity[y].name)
             ELSE IF sort_order = "DESC" THEN y <= x ELSE x <= y

\* PostgresDatabase.fetch_many(Activity, ...) with empty filters and
\* m2m_filters: the lists it can return.  name is a sequence of characters.
fetch_many_activity(name, skip, limit, order_by, sort_order) ==
    LET rows == {<<u, 1>> : u \in {x \in DOMAIN activity :
                                       name # None => ilike(activity[x].name, name[1])}}
    IN  {window(t, skip, limit) :
            t \in {r \in permutations(rows) : in_order_activity(r, order_by, sort_order)}}

\* CRUD.get_list(skip, limit, filters, m2m_filters, name, order_by,
\* sort_order) with model = Activity: every parameter is passed on to
\* fetch_many by keyword.
get_list(skip, limit, filters, m2m_filters, name, order_by, sort_order) ==
    fetch_many_activity(name, skip, limit, order_by, sort_order)

\* ActivitiesViews.list_activities: super().get_list(skip, limit, filters,
\* m2m_filters, order_by, sort_order), positionally, so that order_by is
\* received as name, sort_order as order_by, and sort_order keeps its
\* default.
list_activities(q) ==
    /\ quiescent
    /\ \E rows \in get_list(q.skip, q.limit, {}, {},
                             IF q.order_by = None THEN None ELSE Some(chars(q.order_by[1])),
                             Some(q.sort_order), "DESC") :
          resp' = [op |-> "list_activities", status |-> 200, error |-> "",
                   args |-> q, rows |-> rows]
    /\ UNCHANGED <<activity, organization, building, phone, phone_seq, organization_activity,
                   organization_phone, stack, exp, req, pages>>

SortActivityUUIDs == {1, 2}
SortActivityNames == {<<"a">>, <<"b">>}
SortActivityData == [name : SortActivityNames, parent_uuid : {None}]
SortQueries ==
    [skip : {0, 1}, limit : {1, 2}, order_by : Optional({"name", "uuid"}),
     sort_order : {"ASC", "DESC"}]
SortOrganisationData ==
    [set : AllFields, name : {Some(n) : n \in OrganizationNames}, phones : {<<>>},
     building_uuid : {None}, activities : {<<>>}]
SortOrganizationQueries ==
    [skip : {0, 1}, limit : {1, 2},
     building_uuid : {None}, activity_uuid : {None},
     only_parent_activity : {TRUE}, name : {None},
     phone_id : {None}, order_by : Optional({"name", "uuid"}), sort_order : {"ASC", "DESC"}]

NextSort ==
    \/ \E new \in SortActivityUUIDs, data \in SortActivityData : create_activity(new, data)
    \/ \E q \in SortQueries : list_activities(q)
    \/ \E new \in OrganizationUUIDs, data \in SortOrganisationData :
          create_organisation(new, data)
    \/ \E q \in SortOrganizationQueries : list_organizations(q)

SpecSort == Init /\ [][NextSort]_vars

(***************************************************************************)
(* Properties of the activity taxonomy.                                    *)
(***************************************************************************)
\* v is reached from u by following one or more parent references.
RECURSIVE reaches(_, _, _, _)
reaches(a, u, v, fuel) ==
    /\ fuel > 0
    /\ u \in DOMAIN a
    /\ a[u].parent_uuid # None
    /\ \/ a[u].parent_uuid[1] = v
       \/ reaches(a, a[u].parent_uuid[1], v, fuel - 1)

Acyclic(a) == \A u \in DOMAIN a : ~reaches(a, u, u, Cardinality(DOMAIN a))

\* u itself and every row that reaches u through parent references.
Closure(a, u) == {v \in DOMAIN a : v = u \/ reaches(a, v, u, Cardinality(DOMAIN a))}

\* C1: after any sequence of Activity creates and updates, every Activity's
\* chain of parent references has at most MAX_DEPTH levels.
C1_DepthAtMost3 == \A u \in DOMAIN activity : depth(activity, u) <= MAX_DEPTH

\* C2: creating an Activity under a parent of depth 3 fails with status 400
\* and stores nothing; creating one under a parent of depth 2 succeeds and
\* stores the new Activity under that parent.
C2_CreateDepthChecked ==
    (resp.op = "create_activity" /\ resp.args.parent_uuid # None
        /\ resp.args.parent_uuid[1] \in DOMAIN activity)
    => LET p == resp.args.parent_uuid[1]
       IN  /\ depth(activity, p) = MAX_DEPTH
                => /\ resp.status = 400
                   /\ resp.uuid = None
                   /\ children(activity, p) = {}
           /\ depth(activity, p) = MAX_DEPTH - 1
                => /\ resp.status = 201
                   /\ resp.uuid # None
                   /\ resp.uuid[1] \in children(activity, p)

\* C3: after any sequence of Activity creates and updates no Activity is
\* reachable from itself through parent references.
C3_Acyclic == Acyclic(activity)

C5_ExpandTerminates ==
    /\ exp.status # "RecursionError"
    /\ \A i, j \in DOMAIN stack : i # j => stack[i].uuid # stack[j].uuid

(***************************************************************************)
(* Properties of listing, updating and creating.                           *)
(***************************************************************************)
\* The organizations that match query q in the current store.
matching(q) ==
    LET nested == IF q.activity_uuid # None /\ ~q.only_parent_activity
                  THEN nested_activities(activity, q.activity_uuid[1], MaxStack)
                  ELSE [ok |-> TRUE, uuids |-> {}]
    IN  {r[1] : r \in selected(q.name, list_filters(q), list_m2m_filters(q, nested))}

\* C6: with the store unchanged and one query ordered by name ascending,
\* the page skip=0,limit=n and the page skip=n,limit=n share no entity, and
\* together they are the first 2n matching entities in name order, each once.
C6_PagesPartition ==
    (pages.state = "two" /\ pages.q.order_by = Some("name") /\ pages.q.sort_order = "ASC")
    => LET both == pages.first \o pages.second
           all == matching(pages.q)
           want == IF Cardinality(all) < 2 * pages.q.limit
                   THEN Cardinality(all) ELSE 2 * pages.q.limit
       IN  /\ ToSet(pages.first) \cap ToSet(pages.second) = {}
           /\ Len(both) = Cardinality(ToSet(both))
           /\ ToSet(both) \subseteq all
           /\ Len(both) = want
           /\ \A i \in 1..(Len(both) - 1) :
                 text_le(organization[both[i]].name, organization[both[i + 1]].name)
           /\ \A x \in ToSet(both), o \in all \ ToSet(both) :
                 text_le(organization[x].name, organization[o].name)

\* A request body that sends the name and nothing else.
name_only(n) ==
    [set |-> {"name"}, name |-> Some(n), phones |-> <<>>, building_uuid |-> None,
     activities |-> <<>>]

\* C7: an update that sends only the name sets that Organization's name and
\* changes nothing else: not its building reference, not an association
\* row, not another Organization.
C7_NameOnlyUpdate ==
    [][\A u \in OrganizationUUIDs, n \in OrganizationNames :
          update_organization(u, name_only(n))
          => /\ organization_activity' = organization_activity
             /\ organization_phone' = organization_phone
             /\ DOMAIN organization' = DOMAIN organization
             /\ \A o \in DOMAIN organization :
                   organization'[o] = IF o = u
                                      THEN [name |-> n,
                                            building_uuid |-> organization[o].building_uuid]
                                      ELSE organization[o]]_vars

\* C7 witness: a name-only update of an Organization that has an activity row
\* and a phone row, beside another Organization, has been applied.
C7_Witness ==
    /\ resp.op = "update_organization"
    /\ resp.args.set = {"name"}
    /\ resp.status = 200
    /\ resp.uuid # None
    /\ organization[resp.uuid[1]].name = resp.args.name[1]
    /\ \E p \in DOMAIN organization_activity : p[1] = resp.uuid[1]
    /\ \E p \in DOMAIN organization_phone : p[1] = resp.uuid[1]
    /\ \E o \in DOMAIN organization : o # resp.uuid[1] /\ organization[o].name # resp.args.name[1]

\* No two stored Phones have the same number, and of the finished creates
\* of one number at most one succeeded.
C8_Unique ==
    /\ \A i, j \in DOMAIN phone : phone[i].number = phone[j].number => i = j
    /\ \A c, d \in Clients :
          (c # d /\ req[c].pc = "done" /\ req[d].pc = "done"
              /\ req[c].number = req[d].number)
          => ~(req[c].status = 201 /\ req[d].status = 201)

\* A create of a number that is already stored answers 400 and leaves the
\* table as it was.
C8_DuplicateRejected ==
    \A c \in Clients :
        (create_phone_commit(c) /\ \E i \in DOMAIN phone : phone[i].number = req[c].number)
        => phone' = phone /\ req'[c].status = 400

\* C8: a Phone create with a stored number fails (400) and changes nothing;
\* under every interleaving of creates no two Phones share a number and at
\* most one of two creates of the same number succeeds.
C8_DuplicateKey == []C8_Unique /\ [][C8_DuplicateRejected]_vars

\* C8 witness: two creates of the same number were in flight together; one
\* succeeded and one was rejected.
C8_Witness ==
    \E c, d \in Clients :
        /\ c # d
        /\ req[c].pc = "done" /\ req[d].pc = "done"
        /\ req[c].number = req[d].number
        /\ req[c].overlap /\ req[d].overlap
        /\ req[c].status = 201 /\ req[d].status = 400

\* C9: a create with valid fields succeeds for each kind of entity, returns
\* the generated identifier, and fetch_one by that identifier gives back the
\* supplied values.
C9_CreateRoundTrip ==
    /\ resp.op = "create_building"
          => /\ resp.status = 201
             /\ resp.uuid # None
             /\ fetch_one(building, resp.uuid[1]) = Some(resp.args)
    /\ (resp.op = "create_activity" /\ parent_fk_ok(activity, resp.args.parent_uuid))
          => /\ resp.status = 201
             /\ resp.uuid # None
             /\ fetch_one(activity, resp.uuid[1]) = Some(resp.args)
    /\ (resp.op = "create_organisation"
          /\ organization_row_ok(resp.args.name, resp.args.building_uuid)
          /\ ToSet(resp.args.activities) \subseteq DOMAIN activity
          /\ ToSet(resp.args.phones) \subseteq DOMAIN phone)
          => /\ resp.status = 201
             /\ resp.uuid # None
             /\ fetch_one(organization, resp.uuid[1])
                  = Some([name |-> resp.args.name[1],
                          building_uuid |-> resp.args.building_uuid])
    /\ \A c \in Clients :
          req[c].pc = "done"
          => \/ /\ req[c].status = 201
                /\ req[c].id # None
                /\ fetch_one(phone, req[c].id[1]) = Some([number |-> req[c].number])
             \/ /\ req[c].status = 400
                /\ \E i \in DOMAIN phone : phone[i].number = req[c].number

\* C10: an area search answers 400 exactly when neither mode is complete,
\* and a search with all four bounds and no radius is answered with exactly
\* the buildings inside the inclusive bounds, whatever the bounds' values.
C10_AreaSearch ==
    resp.op = "get_buildings_in_area"
    => LET q == resp.args
           box == q.radius = None /\ given(q.min_lat) /\ given(q.max_lat)
                     /\ given(q.min_lng) /\ given(q.max_lng)
           radial == q.radius # None /\ given(q.lat) /\ given(q.lng)
       IN  /\ resp.status = 400 <=> ~(box \/ radial)
           /\ box => /\ resp.status = 200
                     /\ resp.rows = {b \in DOMAIN building : in_box(building[b], q)}

(***************************************************************************)
(* Properties of delete.                                                   *)
(***************************************************************************)
\* The step is a call of handler op: every handler leaves its name in resp,
\* and the steps that leave resp alone are those of a Phone creation, which
\* change req, and those of a running expansion, which has a stack.
called(op) == resp'.op = op /\ req' = req /\ stack = <<>> /\ stack' = <<>>

\* Every building reference names a stored Building.
C11_BuildingReference ==
    \A o \in DOMAIN organization :
        organization[o].building_uuid # None
        => organization[o].building_uuid[1] \in DOMAIN building

\* A delete of a Building that an Organization refers to answers 400 and
\* leaves the Building and the Organizations as they were.
C11_DeleteRestricted ==
    (called("delete") /\ resp'.args.model = "Building"
        /\ resp'.args.filters.field = "uuid"
        /\ \E o \in DOMAIN organization :
              organization[o].building_uuid = Some(resp'.args.filters.id))
    => /\ resp'.status = 400
       /\ building' = building
       /\ organization' = organization

\* C11: after any sequence of Organization creates and updates and Building
\* creates and deletes, every Organization's building reference, when it has
\* one, names a stored Building; a delete of a referenced Building fails
\* (400) and leaves the Building and the Organization unchanged.
C11_ReferentialIntegrity == []C11_BuildingReference /\ [][C11_DeleteRestricted]_vars

\* C11 witness: the delete of a Building that an Organization refers to was
\* rejected, and both are still stored.
C11_Witness ==
    /\ resp.op = "delete"
    /\ resp.args.model = "Building"
    /\ resp.args.filters.field = "uuid"
    /\ resp.status = 400
    /\ resp.args.filters.id \in DOMAIN building
    /\ \E o \in DOMAIN organization :
          organization[o].building_uuid = Some(resp.args.filters.id)

\* The four entity tables by the name of their class.
tables ==
    [Building |-> building, Organization |-> organization, Activity |-> activity,
     Phone |-> phone]

\* Row k of table t of the model satisfies the filter f.
satisfies(model, t, k, f) ==
    \/ f.field \in {"uuid", "id"} /\ f.field \in columns(model) /\ k = f.id
    \/ f.field = "name" /\ f.field \in columns(model) /\ t[k].name = f.name

\* C12: a delete whose filter names a column of the entity either fails
\* (400) and changes nothing, which happens exactly when a row that matches
\* is referred to by a row that would stay, or removes exactly the rows that
\* satisfy the filter and no others and returns whether at least one row
\* went; when no row matches it returns false, raises nothing and leaves the
\* store unchanged.
C12_DeleteExact ==
    [][(called("delete") /\ resp'.args.filters.field \in columns(resp'.args.model))
          => LET m == resp'.args.model
                 f == resp'.args.filters
                 t == tables[m]
                 hit == {k \in DOMAIN t : satisfies(m, t, k, f)}
                 stores == <<building, organization, activity, phone,
                             organization_activity, organization_phone>>
             IN  /\ hit = {} => /\ resp'.status = 200
                                /\ resp'.result = FALSE
                                /\ stores' = stores
                 /\ resp'.status = 400 <=> referenced(m, hit)
                 /\ resp'.status = 400 => /\ hit # {}
                                          /\ stores' = stores
                 /\ resp'.status = 200
                       => /\ resp'.result = (hit # {})
                          /\ DOMAIN tables'[m] = DOMAIN t \ hit
                          /\ \A k \in DOMAIN t \ hit : tables'[m][k] = t[k]
                          /\ \A n \in Models \ {m} : tables'[n] = tables[n]
                          /\ organization_activity' = organization_activity
                          /\ organization_phone' = organization_phone]_vars

\* C12 witness: a delete by name removed the Organization of that name and
\* returned true, and an Organization of another name is still stored.
C12_Witness ==
    /\ resp.op = "delete"
    /\ resp.args.model = "Organization"
    /\ resp.args.filters.field = "name"
    /\ resp.status = 200
    /\ resp.result
    /\ organization # EmptyTable
    /\ \A o \in DOMAIN organization : organization[o].name # resp.args.filters.name


(***************************************************************************)
(* Properties of the transactional scope.                                  *)
(***************************************************************************)
\* The committed rows.
store == <<activity, organization, building, phone, organization_activity,
           organization_phone>>

\* A create_organisation that names an Activity or a Phone that is not
\* stored, or whose row cannot be inserted, answers a failure and leaves the
\* store exactly as it was; one that succeeds has stored the Organization
\* row and one association row per listed identifier and changed nothing
\* else.
C13_OrganisationAllOrNothing ==
    called("create_organisation")
    => LET data == resp'.args
           new == resp'.uuid[1]
           complete ==
               /\ data.name # None
               /\ data.building_uuid # None => data.building_uuid[1] \in DOMAIN building
               /\ ToSet(data.activities) \subseteq DOMAIN activity
               /\ ToSet(data.phones) \subseteq DOMAIN phone
       IN  /\ resp'.status = 201 <=> complete
           /\ resp'.status # 201 => store' = store
           /\ resp'.status = 201
                 => /\ new \notin DOMAIN organization
                    /\ DOMAIN organization' = DOMAIN organization \cup {new}
                    /\ organization'[new] = [name |-> data.name[1],
                                             building_uuid |-> data.building_uuid]
                    /\ \A o \in DOMAIN organization : organization'[o] = organization[o]
                    /\ \A a \in ToSet(data.activities) :
                          organization_activity'[<<new, a>>] = count(data.activities, a)
                    /\ \A p \in ToSet(data.phones) :
                          organization_phone'[<<new, p>>] = count(data.phones, p)
                    /\ \A r \in DOMAIN organization_activity' :
                          IF r[1] = new THEN r[2] \in ToSet(data.activities)
                          ELSE /\ r \in DOMAIN organization_activity
                               /\ organization_activity'[r] = organization_activity[r]
                    /\ \A r \in DOMAIN organization_phone' :
                          IF r[1] = new THEN r[2] \in ToSet(data.phones)
                          ELSE /\ r \in DOMAIN organization_phone
                               /\ organization_phone'[r] = organization_phone[r]
                    /\ <<activity', building', phone'>> = <<activity, building, phone>>

\* A create_activity that fails leaves the store as it was.
C13_CreateAllOrNothing ==
    (called("create_activity") /\ resp'.status # 201) => store' = store

\* C13: every create_organisation and every repository create is all or
\* nothing: on a failure of any of its steps the call answers a failure and
\* no row of it is stored; on success the Organization row and all its
\* association rows are stored.
C13_Atomic == [][C13_OrganisationAllOrNothing /\ C13_CreateAllOrNothing]_vars

\* C13 witness: a create_organisation whose activities are stored and whose
\* phones are not has failed after its Organization row was flushed and its
\* activity rows were inserted, and no row of it is stored.
C13_Witness ==
    /\ resp.op = "create_organisation"
    /\ resp.status = 400
    /\ resp.args.name # None
    /\ resp.args.activities # <<>>
    /\ ToSet(resp.args.activities) \subseteq DOMAIN activity
    /\ ~(ToSet(resp.args.phones) \subseteq DOMAIN phone)
    /\ organization = EmptyTable
    /\ organization_activity = EmptyTable
    /\ organization_phone = EmptyTable


(***************************************************************************)
(* Properties of listing by activity.                                      *)
(***************************************************************************)
\* C14: a listing by activity answers 200 with organizations that have a
\* row with one of the wanted activities (the activity itself, or with
\* only_parent_activity=false the activity and everything below it), each
\* at most once, as many as skip and limit leave of them; and nothing when
\* the identifier names no stored Activity.
C14_ListByActivity ==
    (resp.op = "list_organizations" /\ resp.args.activity_uuid # None
        /\ resp.args.name = None /\ resp.args.phone_id = None
        /\ resp.args.building_uuid = None)
    => LET q == resp.args
           a == q.activity_uuid[1]
           acts == IF a \notin DOMAIN activity THEN {}
                   ELSE IF q.only_parent_activity THEN {a}
                   ELSE Closure(activity, a)
           want == {o \in DOMAIN organization :
                       \E x \in acts : <<o, x>> \in DOMAIN organization_activity}
           left == IF Cardinality(want) > q.skip THEN Cardinality(want) - q.skip ELSE 0
       IN  /\ resp.status = 200
           /\ ToSet(resp.rows) \subseteq want
           /\ Len(resp.rows) = Cardinality(ToSet(resp.rows))
           /\ Len(resp.rows) = IF left < q.limit THEN left ELSE q.limit
           /\ a \notin DOMAIN activity => resp.rows = <<>>


(***************************************************************************)
(* Properties of ordering.                                                 *)
(***************************************************************************)
\* The list rows is sorted by column col of table t in direction dir.
sorted_by(rows, t, col, dir) ==
    \A i \in 1..(Len(rows) - 1) :
        LET x == IF dir = "ASC" THEN rows[i] ELSE rows[i + 1]
            y == IF dir = "ASC" THEN rows[i + 1] ELSE rows[i]
        IN  IF col = "name" THEN text_le(t[x].name, t[y].name) ELSE x <= y

\* C15: a listing of activities or of organizations that names a column in
\* order_by answers 200 with the entities in the order of that column,
\* ascending for ASC and descending for DESC, and with as many of the
\* stored entities as skip and limit leave, each once: order_by and
\* sort_order filter nothing out.
C15_Sorted ==
    (resp.op \in {"list_activities", "list_organizations"} /\ resp.args.order_by # None)
    => LET q == resp.args
           t == IF resp.op = "list_activities" THEN activity ELSE organization
           n == Cardinality(DOMAIN t)
           left == IF n > q.skip THEN n - q.skip ELSE 0
       IN  /\ resp.status = 200
           /\ ToSet(resp.rows) \subseteq DOMAIN t
           /\ Len(resp.rows) = Cardinality(ToSet(resp.rows))
           /\ Len(resp.rows) = IF left < q.limit THEN left ELSE q.limit
           /\ sorted_by(resp.rows, t, q.order_by[1], q.sort_order)


====
